---- MODULE Spec2Model ----
(***************************************************************************)
(* Model of the IArabicSpeech audio front end and recognizer API:          *)
(*   - FeatureExtractor (shape of the log-mel feature matrices, chunking), *)
(*   - the C bridge (whisper_load_audio, whisper_extract_mel_spectrogram,  *)
(*     whisper_create_model, whisper_destroy_model, whisper_transcribe),   *)
(*   - the Swift API (IArabicSpeechRecognizer and its AudioProcessor).     *)
(* A waveform is represented by its number of samples; a feature matrix by *)
(* its shape [rows, cols].                                                 *)
(***************************************************************************)
EXTENDS Integers, Sequences, FiniteSets, TLC

VARIABLES
  cfg,            \* configuration of the FeatureExtractor instance
  waveform,       \* number of samples of the input waveform / of the file's audioRuns
  chunk_length,   \* chunk-length argument in seconds, or nullopt
  filePath,       \* path given to the loader
  allocOk,        \* whether malloc succeeds inside the C bridge
  op,             \* the operation that has run ("none" before any)
  outcome,        \* what the operation returned or threw
  audio_chunks,   \* [start, end) sample ranges cut by the caller-side chunk loop
  chunk_features, \* feature matrices produced by the operation, in order
  alive,          \* the IArabicSpeechRecognizer object exists (not yet deallocated)
  modelHandle,    \* IArabicSpeechRecognizer.modelHandle (0 is nil)
  isModelLoaded,  \* IArabicSpeechRecognizer.isModelLoaded
  loadedPath,     \* model directory of the WhisperModel behind modelHandle
  nextHandle,     \* number of WhisperModel objects created so far
  liveModels,     \* handles of the WhisperModel objects not yet deleted
  destroyed,      \* handles passed to whisper_destroy_model, in order
  cTranscribeCalls, \* number of invocations of whisper_transcribe
  audioRuns,          \* the audio under test, as runs of silent / non-silent samples
  recOp,          \* the recognizer operation that ran last
  recOutcome,     \* what it returned or threw
  tPc,            \* thread running transcribe(audio:language:): where it is
  tHandle,        \* its local `handle`
  lPc,            \* thread running loadModel(path:): where it is
  lHandle,        \* its local `handle`
  lPath,          \* its modelPath argument
  lOutcome,       \* how its last loadModel call ended
  fnCall,         \* call of a function of the library: its name and arguments
  fnResult        \* what the call returned or raised

audioVars == <<cfg, waveform, chunk_length, filePath, allocOk, op, outcome,
               audio_chunks, chunk_features>>

recVars == <<alive, modelHandle, isModelLoaded, loadedPath, nextHandle, liveModels,
             destroyed, cTranscribeCalls, audioRuns, recOp, recOutcome>>

threadVars == <<tPc, tHandle, lPc, lHandle, lPath, lOutcome>>

fnVars == <<fnCall, fnResult>>

vars == <<audioVars, recVars, threadVars, fnVars>>

----------------------------------------------------------------------------
(* Bounds of the model *)

MaxSeconds == 65
MaxRuns == 3
MaxModels == 2
MaxCalls == 2
MaxLen == 3
MaxChunks == 2
MaxN == 512

----------------------------------------------------------------------------
(* Program constants *)

N_MELS == 80
SAMPLE_RATE == 16000
HOP_LENGTH == 160
CHUNK_LENGTH == 30
N_FFT == 400
WHISPER_CHUNK_SIZE == 480000

nullopt == -1

Min(a, b) == IF a < b THEN a ELSE b

CeilDiv(a, b) == (a + b - 1) \div b

----------------------------------------------------------------------------
(* Feature extractor *)

\* FeatureExtractor(feature_size, sampling_rate, hop_length, chunk_length, n_fft)
FeatureExtractor(feature_size, sampling_rate, hop_length, chunk_len, n_fft) ==
  [n_mels |-> feature_size, sampling_rate |-> sampling_rate,
   hop_length |-> hop_length, chunk_length |-> chunk_len, n_fft |-> n_fft]

DefaultExtractor == FeatureExtractor(N_MELS, SAMPLE_RATE, HOP_LENGTH, CHUNK_LENGTH, N_FFT)

\* The extractor instances the repository constructs: the default one, the
\* custom one, those with another feature size, and those with parameters
\* proportional to the sampling rate (hop sr / 100, n_fft sr / 40), of which
\* the one for 22050 Hz has an odd n_fft.
Extractors ==
  { DefaultExtractor,
    FeatureExtractor(80, 22050, 512, 20, 1024),
    FeatureExtractor(40, SAMPLE_RATE, HOP_LENGTH, CHUNK_LENGTH, N_FFT),
    FeatureExtractor(128, SAMPLE_RATE, HOP_LENGTH, CHUNK_LENGTH, N_FFT),
    FeatureExtractor(80, 8000, 80, 30, 200),
    FeatureExtractor(80, 22050, 220, 30, 551),
    FeatureExtractor(80, 44100, 441, 30, 1102) }

\* Chunk-length arguments used by the callers.
ChunkLengths == {nullopt, 20, 30, 60}

EmptyMatrix == [rows |-> 0, cols |-> 0]

IsEmptyMatrix(m) == m.rows = 0

\* Centered STFT framing: the signal is padded by n_fft/2 samples at both
\* ends, and a frame starts every hop samples as long as a whole window fits.
StftFrames(L, n_fft, hop) ==
  LET padded == L + 2 * (n_fft \div 2)
  IN  IF padded < n_fft THEN 0 ELSE 1 + (padded - n_fft) \div hop

\* What the sources at hand leave open.  The feature extractor and the
\* Tokenizer are not among them: a waveform longer than the chunk length is
\* either cut to the chunk's samples before framing or framed and cut to the
\* chunk's frames, and the Tokenizer either accepts or rejects a language it
\* does not know.
ChunkLimits == {"samples", "frames"}

Builds == [chunk_limit : ChunkLimits, tokenizer_strict : BOOLEAN]

\* FeatureExtractor::nb_max_frames for a chunk length
nb_max_frames(c, chunk) == (chunk * c.sampling_rate) \div c.hop_length

\* Whether the waveform is longer than the chunk length.
ExceedsChunk(c, n, chunk) == chunk # nullopt /\ n > chunk * c.sampling_rate

\* Number of time frames one call produces for n samples.
MelFrames(c, n, chunk, build) ==
  IF ~ExceedsChunk(c, n, chunk)
    THEN StftFrames(n, c.n_fft, c.hop_length)
  ELSE IF build.chunk_limit = "samples"
    THEN StftFrames(chunk * c.sampling_rate, c.n_fft, c.hop_length)
    ELSE Min(StftFrames(n, c.n_fft, c.hop_length), nb_max_frames(c, chunk))

compute_mel_spectrogram_first_frame_dropped(c, n, padding, chunk, build) ==
  IF n = 0
    THEN EmptyMatrix
    ELSE [rows |-> c.n_mels, cols |-> MelFrames(c, n, chunk, build) - 1]

\* FeatureExtractor::compute_mel_spectrogram(waveform, padding, chunk_length):
\* one matrix of n_mels rows over the first chunk_length seconds of the
\* waveform (the whole waveform without a chunk length); empty for no samples.
\* The documented frame count takes no account of the padding argument (160
\* at every call).
compute_mel_spectrogram(c, n, padding, chunk, build) ==
  IF n = 0
    THEN EmptyMatrix
    ELSE [rows |-> c.n_mels, cols |-> MelFrames(c, n, chunk, build)]

\* FeatureExtractor::extract(waveform): compute_mel_spectrogram with the
\* default arguments, i.e. the extractor's own chunk length.
extract(c, n, build) == compute_mel_spectrogram(c, n, 160, c.chunk_length, build)

----------------------------------------------------------------------------
(* Caller-side chunk loop *)

RECURSIVE ChunkLoop_overlapping(_, _, _)
ChunkLoop_overlapping(start, size, chunk_samples) ==
  IF start < size
    THEN <<[start |-> start, end |-> Min(start + chunk_samples + 1, size)]>>
           \o ChunkLoop_overlapping(start + chunk_samples, size, chunk_samples)
    ELSE <<>>

\* for (start = 0; start < size; start += chunk_samples)
\*   chunk = [start, min(start + chunk_samples, size))
RECURSIVE ChunkLoop(_, _, _)
ChunkLoop(start, size, chunk_samples) ==
  IF start < size
    THEN <<[start |-> start, end |-> Min(start + chunk_samples, size)]>>
           \o ChunkLoop(start + chunk_samples, size, chunk_samples)
    ELSE <<>>

\* Audio::pad_or_trim on the number of samples: the result has `length` samples.
pad_or_trim_size(size, length) ==
  IF size = length THEN size ELSE IF size > length THEN length ELSE length

----------------------------------------------------------------------------
(* C bridge *)

NullMatrix == [data |-> "null", rows |-> 0, cols |-> 0]

whisper_extract_mel_spectrogram_alloc_for_empty(audioNull, length, alloc, build) ==
  IF audioNull
    THEN NullMatrix
    ELSE LET mel_spec == compute_mel_spectrogram(DefaultExtractor, length, 160, CHUNK_LENGTH,
                                                   build)
         IN  IF alloc
               THEN [data |-> "ptr", rows |-> mel_spec.rows, cols |-> mel_spec.cols]
               ELSE NullMatrix

whisper_extract_mel_spectrogram_transposed(audioNull, length, alloc, build) ==
  IF audioNull \/ length = 0
    THEN NullMatrix
    ELSE LET mel_spec == compute_mel_spectrogram(DefaultExtractor, length, 160, CHUNK_LENGTH,
                                                   build)
         IN  IF IsEmptyMatrix(mel_spec) THEN NullMatrix
             ELSE IF alloc
               THEN [data |-> "ptr", rows |-> mel_spec.cols, cols |-> mel_spec.rows]
               ELSE NullMatrix

\* FloatMatrix whisper_extract_mel_spectrogram(const float* audio, unsigned long length)
whisper_extract_mel_spectrogram(audioNull, length, alloc, build) ==
  IF audioNull \/ length = 0
    THEN NullMatrix
    ELSE LET mel_spec == compute_mel_spectrogram(DefaultExtractor, length, 160, CHUNK_LENGTH,
                                                   build)
         IN  IF IsEmptyMatrix(mel_spec) THEN NullMatrix
             ELSE IF alloc
               THEN [data |-> "ptr", rows |-> mel_spec.rows, cols |-> mel_spec.cols]
               ELSE NullMatrix

----------------------------------------------------------------------------
(* Audio files and the loader *)

NoPath == "<none>"
UnencodablePath == "<no utf8 representation>"
LoadablePaths == {"test.wav"}
FailingPaths == {"/nonexistent/file.wav", "unreadable.wav", "malformed.wav"}
Paths == LoadablePaths \cup FailingPaths \cup {UnencodablePath}

\* whisper::AudioProcessor::load_audio(filename): the decoded samples, or no
\* samples when the file is absent, unreadable or not decodable.
load_audio(path, fileSamples) ==
  IF path \in LoadablePaths THEN fileSamples ELSE 0

NullArray == [data |-> "null", length |-> 0]

\* FloatArray whisper_load_audio(const char* filename)
whisper_load_audio(filenameNull, path, fileSamples, alloc) ==
  IF filenameNull
    THEN NullArray
    ELSE LET audio == load_audio(path, fileSamples)
         IN  IF audio = 0 THEN NullArray
             ELSE IF alloc THEN [data |-> "ptr", length |-> audio]
             ELSE [data |-> "null", length |-> 0]

----------------------------------------------------------------------------
(* Swift API: errors and AudioProcessor *)

NoFile == "<no file>"

SpeechRecognitionErrorCases ==
  {"invalidAudioData", "recognitionFailed", "modelNotLoaded", "modelLoadFailed",
   "invalidModelPath"}

\* enum SpeechRecognitionError: Error -- the cases carry no associated value.
SpeechRecognitionError(case) == [case |-> case, file |-> NoFile]

NoError == [case |-> "<none>", file |-> NoFile]

NoOutcome ==
  [kind |-> "none", error |-> NoError, data |-> "none", rows |-> 0, cols |-> 0,
   samples |-> 0]

Throw(case) == [NoOutcome EXCEPT !.kind = "throw", !.error = SpeechRecognitionError(case)]

ReturnMatrix(data, m) ==
  [NoOutcome EXCEPT !.kind = "return", !.data = data, !.rows = m.rows, !.cols = m.cols]

ReturnSamples(data, n) ==
  [NoOutcome EXCEPT !.kind = "return", !.data = data, !.samples = n]

AudioProcessor_loadAudio_unchecked(path, fileSamples, alloc) ==
  IF path = UnencodablePath
    THEN Throw("invalidAudioData")
    ELSE LET result == whisper_load_audio(FALSE, path, fileSamples, alloc)
         IN  ReturnSamples("array", result.length)

\* AudioProcessor.loadAudio(from:)
AudioProcessor_loadAudio(path, fileSamples, alloc) ==
  IF path = UnencodablePath
    THEN Throw("invalidAudioData")
    ELSE LET result == whisper_load_audio(FALSE, path, fileSamples, alloc)
         IN  IF result.data # "null" /\ result.length > 0
               THEN ReturnSamples("array", result.length)
               ELSE Throw("invalidAudioData")

AudioProcessor_extractMelSpectrogram_unguarded(audioCount, alloc, build) ==
  LET result == whisper_extract_mel_spectrogram(FALSE, audioCount, alloc, build)
  IN  ReturnMatrix("array", [rows |-> result.rows, cols |-> result.cols])

\* AudioProcessor.extractMelSpectrogram(from:)
AudioProcessor_extractMelSpectrogram(audioCount, alloc, build) ==
  LET result == whisper_extract_mel_spectrogram(FALSE, audioCount, alloc, build)
  IN  IF result.data # "null" /\ result.rows > 0 /\ result.cols > 0
        THEN ReturnMatrix("array", [rows |-> result.rows, cols |-> result.cols])
        ELSE Throw("recognitionFailed")

----------------------------------------------------------------------------
(* WhisperModel *)

MIN_SILENCE_SAMPLES == 8000
MIN_SEGMENT_SAMPLES == 16000

\* Number of samples of a run-length encoded audio vector.
RECURSIVE AudioSize(_)
AudioSize(runs) ==
  IF runs = <<>> THEN 0 ELSE Head(runs).len + AudioSize(Tail(runs))

\* Index of the first sample of run j.
RunStart(runs, j) == AudioSize(SubSeq(runs, 1, j - 1))

\* One iteration of the "find silence boundaries" loop, at sample i.
SilenceStep(st, i, is_silent) ==
  IF ~st.in_silence /\ is_silent
    THEN [st EXCEPT !.silence_start = i, !.in_silence = TRUE]
  ELSE IF st.in_silence /\ ~is_silent
    THEN LET silence_duration == i - st.silence_start
             segment_length == st.silence_start - st.segment_start
         IN  IF silence_duration >= MIN_SILENCE_SAMPLES
               THEN [st EXCEPT
                       !.silence_segments =
                          IF segment_length >= MIN_SEGMENT_SAMPLES
                            THEN Append(@, [start |-> st.segment_start,
                                            end |-> st.silence_start])
                            ELSE @,
                       !.segment_start = i,
                       !.in_silence = FALSE]
               ELSE [st EXCEPT !.in_silence = FALSE]
  ELSE st

\* The loop over the samples from run j on; within a run only its first
\* sample can change the loop state.
RECURSIVE SilenceLoop(_, _, _)
SilenceLoop(runs, j, st) ==
  IF j > Len(runs)
    THEN st
    ELSE SilenceLoop(runs, j + 1, SilenceStep(st, RunStart(runs, j), runs[j].silent))

\* Step 1 of WhisperModel::transcribe: the segments separated by silence.
SilenceSegments(runs) ==
  LET loud == {j \in DOMAIN runs : runs[j].loud}
      first == IF loud = {} THEN 1
               ELSE CHOOSE j \in loud : \A k \in loud : j <= k
      st0 == [segment_start |-> IF loud = {} THEN 0 ELSE RunStart(runs, first),
              silence_start |-> 0,
              in_silence |-> (loud = {}),
              silence_segments |-> <<>>]
      st == SilenceLoop(runs, first, st0)
      size == AudioSize(runs)
  IN  IF ~st.in_silence /\ (size - st.segment_start) >= MIN_SEGMENT_SAMPLES
        THEN Append(st.silence_segments, [start |-> st.segment_start, end |-> size])
        ELSE st.silence_segments

\* Number of samples of audio_to_process.
AudioToProcess(runs) ==
  LET silence_segments == SilenceSegments(runs)
  IN  IF Len(silence_segments) < 2
        THEN AudioSize(runs)
        ELSE silence_segments[1].end - silence_segments[1].start

\* Model directories: what whisper_create_model finds there.
ModelDirs ==
  { [path |-> "whisper_ct2", valid |-> TRUE, multilingual |-> TRUE, vocabulary |-> TRUE],
    [path |-> "whisper_en", valid |-> TRUE, multilingual |-> FALSE, vocabulary |-> TRUE],
    [path |-> "no_vocabulary", valid |-> TRUE, multilingual |-> TRUE, vocabulary |-> FALSE],
    [path |-> "/nonexistent/model", valid |-> FALSE, multilingual |-> FALSE,
     vocabulary |-> FALSE] }

ModelPaths == {d.path : d \in ModelDirs} \cup {UnencodablePath}

ModelDir(path) == CHOOSE d \in ModelDirs : d.path = path

\* The paths whisper_create_model succeeds on.
LoadedModelPaths == {d.path : d \in {e \in ModelDirs : e.valid}}

NoLanguage == "<nil>"
\* The language argument: none, a language of the vocabulary, the empty
\* string or a code of no language.
KnownLanguages == {"ar", "en"}
Languages == {NoLanguage, "", "xx"} \cup KnownLanguages

\* Tokenizer tokenizer(vocabulary, multilingual, "transcribe", detected_language):
\* the constructor is not among the sources.  Given a language it does not
\* know it constructs, or (in a strict build) throws.
Tokenizer(language, build) ==
  IF build.tokenizer_strict /\ language \notin KnownLanguages
    THEN "exception" ELSE "constructed"

\* WhisperModel::generate_segments
generate_segments(features) == <<>>

\* WhisperModel::detect_language; the probability is in hundredths.
detect_language == [language |-> "ar", probability |-> 95]

Exception(what) ==
  [kind |-> "exception", what |-> what, segments |-> <<>>, language |-> "",
   language_probability |-> 0, duration |-> 0]

\* The loop over the silence segments from the second one on ("Process
\* additional segments"): the segments it appends.
RECURSIVE AdditionalSegments(_, _, _)
AdditionalSegments(silence_segments, seg_idx, build) ==
  IF seg_idx > Len(silence_segments)
    THEN <<>>
    ELSE LET segment_features ==
               extract(DefaultExtractor,
                       silence_segments[seg_idx].end - silence_segments[seg_idx].start,
                       build)
         IN  (IF ~IsEmptyMatrix(segment_features) /\ segment_features.cols # 0
                THEN generate_segments(segment_features)
                ELSE <<>>) \o AdditionalSegments(silence_segments, seg_idx + 1, build)

\* WhisperModel::transcribe(audio, language, multilingual); the duration is
\* kept in samples (the code divides it by the sampling rate).
WhisperModel_transcribe(runs, language, dir, build) ==
  LET silence_segments == SilenceSegments(runs)
      duration == AudioToProcess(runs)
      features == extract(DefaultExtractor, duration, build)
      lang == IF language = NoLanguage
                THEN IF ~dir.multilingual
                       THEN [language |-> "ar", probability |-> 100]
                       ELSE detect_language
                ELSE IF ~dir.multilingual /\ language # "ar"
                       THEN [language |-> "en", probability |-> 100]
                       ELSE [language |-> language, probability |-> 100]
  IN  IF IsEmptyMatrix(features) \/ features.cols = 0
        THEN Exception("Failed to extract features from audio")
      ELSE IF ~dir.vocabulary
        THEN Exception("Failed to open vocabulary file")
      ELSE IF Tokenizer(lang.language, build) = "exception"
        THEN Exception("Tokenizer")
      ELSE [kind |-> "return", what |-> "",
            segments |-> generate_segments(features)
                           \o AdditionalSegments(silence_segments, 2, build),
            language |-> lang.language, language_probability |-> lang.probability,
            duration |-> duration]

\* TranscriptionResult result = {nullptr, 0, nullptr, 0.0f, 0.0f}
NullResult ==
  [segments |-> <<>>, segment_count |-> 0, language |-> "null",
   language_probability |-> 0, duration |-> 0]

\* TranscriptionResult whisper_transcribe(model, audio, audio_length, language);
\* the model is given by the directory it was created from.
whisper_transcribe(modelNull, audioNull, runs, language, path, build) ==
  IF modelNull \/ audioNull \/ AudioSize(runs) = 0
    THEN NullResult
    ELSE LET r == WhisperModel_transcribe(runs, language, ModelDir(path), build)
         IN  IF r.kind = "exception"
               THEN NullResult
               ELSE [segments |-> r.segments, segment_count |-> Len(r.segments),
                     language |-> r.language,
                     language_probability |-> r.language_probability,
                     duration |-> r.duration]

whisper_destroy_model_noop(model, destroyedSoFar) == destroyedSoFar

\* void whisper_destroy_model(WhisperModelHandle model): the sequence of
\* deleted models after the call.
whisper_destroy_model(model, destroyedSoFar) ==
  IF model # 0 THEN Append(destroyedSoFar, model) ELSE destroyedSoFar

\* WhisperModelHandle whisper_create_model(const char* model_path): whether a
\* model object is created (otherwise nullptr is returned).
whisper_create_model(pathNull, path) ==
  IF pathNull THEN FALSE ELSE ModelDir(path).valid

----------------------------------------------------------------------------
(* IArabicSpeechRecognizer *)

NoRecOutcome ==
  [kind |-> "none", error |-> NoError, segments |-> <<>>, language |-> "",
   languageProbability |-> 0, duration |-> 0, text |-> "", samples |-> 0]

RecThrow(e) == [NoRecOutcome EXCEPT !.kind = "throw", !.error = e]

RecReturn == [NoRecOutcome EXCEPT !.kind = "return"]

\* segments.map { $0.text }.joined(separator: " ")
JoinedText(segments) == IF segments = <<>> THEN "" ELSE "text"

\* Conversion of the C result into the Swift TranscriptionResult.
TranscriptionResult(result) ==
  [RecReturn EXCEPT
     !.segments = result.segments,
     !.language = IF result.language # "null" THEN result.language ELSE "unknown",
     !.languageProbability = result.language_probability,
     !.duration = result.duration,
     !.text = JoinedText(result.segments)]

transcribe_unguarded(loaded, handle, runs, language, path, build) ==
  [outcome |-> TranscriptionResult(
                 whisper_transcribe(handle = 0, FALSE, runs, language, path, build)),
   c_calls |-> 1]

\* func transcribe(audio:language:); c_calls counts its invocations of
\* whisper_transcribe.
transcribe(loaded, handle, runs, language, path, build) ==
  IF ~(loaded /\ handle # 0)
    THEN [outcome |-> RecThrow(SpeechRecognitionError("modelNotLoaded")),
          c_calls |-> 0]
    ELSE [outcome |-> TranscriptionResult(
                        whisper_transcribe(FALSE, FALSE, runs, language, path, build)),
          c_calls |-> 1]

\* The text recognize returns for a transcription outcome.
recognize(t) ==
  IF t.outcome.kind = "throw"
    THEN t
    ELSE [t EXCEPT !.outcome = [RecReturn EXCEPT !.text = JoinedText(t.outcome.segments)]]

\* init()
RecognizerNew ==
  /\ alive = TRUE
  /\ modelHandle = 0
  /\ isModelLoaded = FALSE
  /\ loadedPath = NoPath
  /\ nextHandle = 0
  /\ liveModels = {}
  /\ destroyed = <<>>
  /\ cTranscribeCalls = 0
  /\ recOp = "init"
  /\ recOutcome = NoRecOutcome
  /\ tPc = "idle"
  /\ tHandle = 0
  /\ lPc = "idle"
  /\ lHandle = 0
  /\ lPath = NoPath
  /\ lOutcome = NoRecOutcome

\* No library function has been called.
NoCall == [name |-> "none"]

NoResult == [kind |-> "none"]

FnIdle ==
  /\ fnCall = NoCall
  /\ fnResult = NoResult

----------------------------------------------------------------------------
(* Inputs *)

\* Offsets around a whole number of seconds, in samples.
Offsets(c) == {0, 1, c.hop_length - 1, c.hop_length}

Waveforms(c) ==
  { s * c.sampling_rate + d : s \in 0..MaxSeconds, d \in Offsets(c) }

----------------------------------------------------------------------------
(* Operations of the audio front end; each runs once on the chosen input *)

InitAudio ==
  /\ cfg \in Extractors
  /\ waveform \in Waveforms(cfg)
  /\ chunk_length \in ChunkLengths
  /\ filePath = NoPath
  /\ allocOk = TRUE
  /\ op = "none"
  /\ outcome = NoOutcome
  /\ audio_chunks = <<>>
  /\ chunk_features = <<>>
  /\ RecognizerNew
  /\ FnIdle
  /\ audioRuns = <<>>

\* extractor.compute_mel_spectrogram(waveform, 160, chunk_length)
ComputeMelSpectrogram ==
  /\ op = "none"
  /\ \E build \in Builds :
     \E m \in {compute_mel_spectrogram(cfg, waveform, 160, chunk_length, build)} :
       /\ outcome' = ReturnMatrix("vector", m)
       /\ chunk_features' = <<m>>
  /\ op' = "compute_mel_spectrogram"
  /\ UNCHANGED <<recVars, threadVars, fnVars>>
  /\ UNCHANGED <<cfg, waveform, chunk_length, filePath, allocOk, audio_chunks>>

\* extractor.extract(waveform)
Extract ==
  /\ op = "none"
  /\ \E build \in Builds :
     \E m \in {extract(cfg, waveform, build)} :
       /\ outcome' = ReturnMatrix("vector", m)
       /\ chunk_features' = <<m>>
  /\ op' = "extract"
  /\ UNCHANGED <<recVars, threadVars, fnVars>>
  /\ UNCHANGED <<cfg, waveform, chunk_length, filePath, allocOk, audio_chunks>>

\* The chunked preprocessing and extraction loops of the long-audio pipeline:
\* cut the waveform, pad every chunk to WHISPER_CHUNK_SIZE, extract each and
\* keep the non-empty feature matrices.
ChunkedExtraction ==
  /\ op = "none"
  /\ chunk_length # nullopt
  /\ \E build \in Builds :
     LET chunk_samples == chunk_length * cfg.sampling_rate
         chunks == ChunkLoop(0, waveform, chunk_samples)
         features == [i \in DOMAIN chunks |->
                        extract(cfg, pad_or_trim_size(chunks[i].end - chunks[i].start,
                                                      WHISPER_CHUNK_SIZE), build)]
     IN  /\ audio_chunks' = chunks
         /\ chunk_features' = SelectSeq(features, LAMBDA m : ~IsEmptyMatrix(m))
         /\ outcome' = [NoOutcome EXCEPT !.kind = "return", !.data = "vector"]
  /\ op' = "chunk_loop"
  /\ UNCHANGED <<recVars, threadVars, fnVars>>
  /\ UNCHANGED <<cfg, waveform, chunk_length, filePath, allocOk>>

\* whisper_extract_mel_spectrogram(audio, length) called from C
BridgeExtract ==
  /\ op = "none"
  /\ \E audioNull \in BOOLEAN, alloc \in BOOLEAN, build \in Builds :
       /\ allocOk' = alloc
       /\ filePath' = IF audioNull THEN "<null audio>" ELSE NoPath
       /\ \E result \in {whisper_extract_mel_spectrogram(audioNull, waveform, alloc,
                                                         build)} :
            outcome' = ReturnMatrix(result.data, result)
  /\ op' = "whisper_extract_mel_spectrogram"
  /\ UNCHANGED <<recVars, threadVars, fnVars>>
  /\ UNCHANGED <<cfg, waveform, chunk_length, audio_chunks, chunk_features>>

\* AudioProcessor.extractMelSpectrogram(from: audio)
SwiftExtract ==
  /\ op = "none"
  /\ \E alloc \in BOOLEAN, build \in Builds :
       /\ allocOk' = alloc
       /\ outcome' = AudioProcessor_extractMelSpectrogram(waveform, alloc, build)
  /\ op' = "extractMelSpectrogram"
  /\ UNCHANGED <<recVars, threadVars, fnVars>>
  /\ UNCHANGED <<cfg, waveform, chunk_length, filePath, audio_chunks, chunk_features>>

\* whisper_load_audio(filename) called from C
BridgeLoad ==
  /\ op = "none"
  /\ \E path \in (Paths \ {UnencodablePath}) \cup {NoPath}, alloc \in BOOLEAN :
       /\ filePath' = path
       /\ allocOk' = alloc
       /\ LET result == whisper_load_audio(path = NoPath, path, waveform, alloc)
          IN  outcome' = ReturnSamples(result.data, result.length)
  /\ op' = "whisper_load_audio"
  /\ UNCHANGED <<recVars, threadVars, fnVars>>
  /\ UNCHANGED <<cfg, waveform, chunk_length, audio_chunks, chunk_features>>

\* AudioProcessor.loadAudio(from: filePath)
SwiftLoad ==
  /\ op = "none"
  /\ \E path \in Paths, alloc \in BOOLEAN :
       /\ filePath' = path
       /\ allocOk' = alloc
       /\ outcome' = AudioProcessor_loadAudio(path, waveform, alloc)
  /\ op' = "loadAudio"
  /\ UNCHANGED <<recVars, threadVars, fnVars>>
  /\ UNCHANGED <<cfg, waveform, chunk_length, audio_chunks, chunk_features>>

NextAudio ==
  \/ ComputeMelSpectrogram
  \/ Extract
  \/ ChunkedExtraction
  \/ BridgeExtract
  \/ SwiftExtract
  \/ BridgeLoad
  \/ SwiftLoad

SpecAudio == InitAudio /\ [][NextAudio]_vars

----------------------------------------------------------------------------
(* Properties of the audio front end *)

ChunkingOps == {"compute_mel_spectrogram", "chunk_loop"}

ChunkSamples == chunk_length * cfg.sampling_rate

NonEmptyMatrices ==
  Cardinality({i \in DOMAIN chunk_features : ~IsEmptyMatrix(chunk_features[i])})

\* The chunks are consecutive, non-overlapping, of chunk_samples samples
\* except a possibly shorter last one, and cover [0, size) exactly.
IsPartition(chunks, size, chunk_samples) ==
  /\ Len(chunks) = CeilDiv(size, chunk_samples)
  /\ \A i \in DOMAIN chunks :
       /\ chunks[i].start = (i - 1) * chunk_samples
       /\ chunks[i].start < chunks[i].end
       /\ i < Len(chunks) => chunks[i].end = chunks[i + 1].start
       /\ i < Len(chunks) => chunks[i].end - chunks[i].start = chunk_samples
       /\ i = Len(chunks) => chunks[i].end = size
       /\ chunks[i].end - chunks[i].start <= chunk_samples

\* C1 (as stated): every chunked extraction of N samples with a chunk length
\* of c seconds yields ceil(N / (c * sample_rate)) feature matrices.
C1_Original ==
  (op \in ChunkingOps /\ chunk_length # nullopt)
    => NonEmptyMatrices = CeilDiv(waveform, ChunkSamples)

\* C1 (amended): the caller-side chunk loop cuts N samples into
\* ceil(N / (c * sample_rate)) consecutive non-overlapping segments (the last
\* possibly shorter), every sample in exactly one, and yields one feature
\* matrix per segment; compute_mel_spectrogram with a chunk length yields a
\* single matrix.
C1_Amended ==
  /\ (op = "chunk_loop")
       => /\ IsPartition(audio_chunks, waveform, ChunkSamples)
          /\ Len(chunk_features) = CeilDiv(waveform, ChunkSamples)
  /\ (op = "compute_mel_spectrogram" /\ chunk_length # nullopt)
       => Len(chunk_features) = 1

\* A 65-second waveform cut with c = 30 into chunks of 30 s, 30 s and 5 s.
C1_Witness ==
  /\ op = "chunk_loop"
  /\ cfg = DefaultExtractor
  /\ waveform = 65 * SAMPLE_RATE
  /\ chunk_length = 30
  /\ Len(audio_chunks) = 3
  /\ audio_chunks[1].end - audio_chunks[1].start = 30 * SAMPLE_RATE
  /\ audio_chunks[2].end - audio_chunks[2].start = 30 * SAMPLE_RATE
  /\ audio_chunks[3].end - audio_chunks[3].start = 5 * SAMPLE_RATE
  /\ Len(chunk_features) = 3

\* The samples feature matrix i was extracted from, and the chunk length of
\* that call.
ChunkInput(i) ==
  IF op = "chunk_loop"
    THEN pad_or_trim_size(audio_chunks[i].end - audio_chunks[i].start, WHISPER_CHUNK_SIZE)
    ELSE waveform

ChunkArgument == IF op = "compute_mel_spectrogram" THEN chunk_length ELSE cfg.chunk_length

\* The input of feature matrix i is one chunk: it does not exceed the chunk
\* length.
IsChunk(i) == ~ExceedsChunk(cfg, ChunkInput(i), ChunkArgument)

ExtractorOps == {"compute_mel_spectrogram", "extract", "chunk_loop"}

C4_MelRows ==
  waveform > 0
    => /\ op \in ExtractorOps
            => \A i \in DOMAIN chunk_features : chunk_features[i].rows = cfg.n_mels
       /\ (op = "whisper_extract_mel_spectrogram" /\ outcome.data # "null")
            => outcome.rows = N_MELS
       /\ (op = "extractMelSpectrogram" /\ outcome.kind = "return")
            => outcome.rows = N_MELS

\* The bridge returns an 80-row matrix for two seconds of audio.
C4_Witness ==
  /\ op = "whisper_extract_mel_spectrogram"
  /\ waveform = 2 * SAMPLE_RATE
  /\ outcome.data = "ptr"
  /\ outcome.rows = 80
  /\ outcome.cols = 201

EntryPoints ==
  {"compute_mel_spectrogram", "extract", "whisper_extract_mel_spectrogram",
   "extractMelSpectrogram"}

\* What the bridge returns when it fails (allocation failure) on real audio.
BridgeFailure ==
  whisper_extract_mel_spectrogram(FALSE, SAMPLE_RATE, FALSE, CHOOSE b \in Builds : TRUE)

\* C5 (as stated): extraction of a zero-length waveform is not an error: it
\* yields an empty matrix, with no exception and no error outcome, which the
\* caller can tell apart from a failure.
C5_Original ==
  (op \in EntryPoints /\ waveform = 0)
    => /\ outcome.kind = "return"
       /\ outcome.rows = 0
       /\ op = "whisper_extract_mel_spectrogram"
            => [data |-> outcome.data, rows |-> outcome.rows, cols |-> outcome.cols]
                 # BridgeFailure

\* C5 (amended): extraction of a zero-length waveform deterministically yields
\* an empty matrix without exception from FeatureExtractor and from
\* whisper_extract_mel_spectrogram; the bridge's empty result is the same
\* value it returns on failure, and AudioProcessor.extractMelSpectrogram
\* reports it as the error recognitionFailed.
C5_Amended ==
  waveform = 0
    => /\ op \in {"compute_mel_spectrogram", "extract"}
            => outcome.kind = "return" /\ outcome.rows = 0 /\ outcome.cols = 0
       /\ op = "whisper_extract_mel_spectrogram"
            => /\ outcome.kind = "return" /\ outcome.rows = 0 /\ outcome.cols = 0
               /\ outcome.data = BridgeFailure.data
       /\ op = "extractMelSpectrogram"
            => outcome = Throw("recognitionFailed")

\* The Swift extraction has run on an empty array.
C5_Witness ==
  /\ op = "extractMelSpectrogram"
  /\ waveform = 0
  /\ outcome.kind = "throw"

\* C6: AudioProcessor.extractMelSpectrogram(from:) throws a
\* SpeechRecognitionError for an empty sample array, and never returns an
\* empty spectrogram.
C6_EmptyThrows ==
  op = "extractMelSpectrogram"
    => /\ waveform = 0
            => /\ outcome.kind = "throw"
               /\ outcome.error.case \in SpeechRecognitionErrorCases
       /\ outcome.kind = "return" => (outcome.rows > 0 /\ outcome.cols > 0)
       /\ outcome.kind \in {"return", "throw"}

\* Both outcomes of the Swift extraction occur: this is the throwing one.
C6_Witness ==
  /\ op = "extractMelSpectrogram"
  /\ waveform = 0
  /\ allocOk
  /\ outcome.error.case = "recognitionFailed"

CannotBeLoaded ==
  filePath \notin LoadablePaths \/ waveform = 0

\* C7: AudioProcessor.loadAudio(from:) throws a SpeechRecognitionError when
\* the file cannot be loaded (absent, unreadable, or no samples decoded), and
\* a normal return carries a non-empty sample array.
C7_LoadThrows ==
  op = "loadAudio"
    => /\ CannotBeLoaded
            => /\ outcome.kind = "throw"
               /\ outcome.error.case \in SpeechRecognitionErrorCases
       /\ outcome.kind = "return" => outcome.samples > 0
       /\ outcome.kind \in {"return", "throw"}

\* Loading a path that does not exist has thrown.
C7_Witness ==
  /\ op = "loadAudio"
  /\ filePath = "/nonexistent/file.wav"
  /\ outcome.kind = "throw"
  /\ outcome.error.case = "invalidAudioData"

\* C8: a decode failure reaches the caller of the loader as a typed, catchable
\* error that identifies the offending file.
C8_ErrorNamesFile ==
  (op = "loadAudio" /\ filePath \in FailingPaths)
    => /\ outcome.kind = "throw"
       /\ outcome.error.case \in SpeechRecognitionErrorCases
       /\ outcome.error.file = filePath

----------------------------------------------------------------------------
(* The recognizer: one IArabicSpeechRecognizer object and its audio *)

RunLengths == {MIN_SILENCE_SAMPLES - 1, MIN_SILENCE_SAMPLES,
               MIN_SEGMENT_SAMPLES - 1, MIN_SEGMENT_SAMPLES}

\* A run of samples that give the same answers to the two tests of the
\* silence detection: silent is |x| < 0.01 and loud is |x| >= 0.01.  A NaN
\* sample gives false to both.
RunOf(silent, loud, len) == [silent |-> silent, loud |-> loud, len |-> len]

Runs == {RunOf(silent, ~silent, len) : silent \in BOOLEAN, len \in RunLengths}

NaNRuns == {RunOf(FALSE, FALSE, len) : len \in RunLengths}

RECURSIVE SeqsUpTo(_, _)
SeqsUpTo(S, n) ==
  IF n = 0 THEN {<<>>}
  ELSE LET shorter == SeqsUpTo(S, n - 1)
       IN  shorter \cup {Append(q, x) : q \in shorter, x \in S}

\* Runs are maximal: consecutive runs differ in kind.
MaximalRuns(q) ==
  \A i \in 1..(Len(q) - 1) :
     <<q[i].silent, q[i].loud>> # <<q[i + 1].silent, q[i + 1].loud>>

\* The audios given to the recognizer, in runs of the two threshold lengths:
\* every audio of numbers, and the audios of one run of NaN samples.
RecognizerRunLengths == {MIN_SILENCE_SAMPLES, MIN_SEGMENT_SAMPLES}

Audios ==
  {q \in SeqsUpTo({r \in Runs : r.len \in RecognizerRunLengths}, MaxRuns) :
     MaximalRuns(q)}
    \cup {<<r>> : r \in {n \in NaNRuns : n.len \in RecognizerRunLengths}}

\* The audios of the silence detection, NaN samples included.
SegmentAudios == {q \in SeqsUpTo(Runs \cup NaNRuns, MaxRuns) : MaximalRuns(q)}

AudioIdle ==
  /\ cfg = DefaultExtractor
  /\ waveform = 0
  /\ chunk_length = nullopt
  /\ filePath = NoPath
  /\ allocOk = TRUE
  /\ op = "none"
  /\ outcome = NoOutcome
  /\ audio_chunks = <<>>
  /\ chunk_features = <<>>

InitRecognizer ==
  /\ AudioIdle
  /\ RecognizerNew
  /\ FnIdle
  /\ audioRuns \in Audios

\* func loadModel(path:)
RecLoadModel ==
  /\ alive
  /\ nextHandle < MaxModels
  /\ \E path \in ModelPaths :
       LET had == modelHandle # 0
           created == whisper_create_model(FALSE, path)
       IN  /\ destroyed' = IF had THEN whisper_destroy_model(modelHandle, destroyed)
                                 ELSE destroyed
           /\ IF path = UnencodablePath \/ ~created
                THEN /\ recOutcome' =
                          RecThrow(SpeechRecognitionError(
                             IF path = UnencodablePath THEN "invalidModelPath"
                                                       ELSE "modelLoadFailed"))
                     /\ modelHandle' = 0
                     /\ isModelLoaded' = IF had THEN FALSE ELSE isModelLoaded
                     /\ liveModels' = liveModels \ {modelHandle}
                     /\ loadedPath' = IF had THEN NoPath ELSE loadedPath
                     /\ UNCHANGED nextHandle
                ELSE /\ recOutcome' = RecReturn
                     /\ nextHandle' = nextHandle + 1
                     /\ modelHandle' = nextHandle + 1
                     /\ isModelLoaded' = TRUE
                     /\ liveModels' = (liveModels \ {modelHandle}) \cup {nextHandle + 1}
                     /\ loadedPath' = path
  /\ recOp' = "loadModel"
  /\ UNCHANGED <<alive, cTranscribeCalls, audioRuns>>
  /\ UNCHANGED <<audioVars, threadVars, fnVars>>

\* func transcribe(audio:language:)
RecTranscribe ==
  /\ alive
  /\ cTranscribeCalls < MaxCalls
  /\ \E language \in Languages, build \in Builds :
     \E t \in {transcribe(isModelLoaded, modelHandle, audioRuns, language, loadedPath,
                          build)} :
       /\ recOutcome' = [t.outcome EXCEPT !.samples = AudioSize(audioRuns)]
       /\ cTranscribeCalls' = cTranscribeCalls + t.c_calls
  /\ recOp' = "transcribe"
  /\ UNCHANGED <<alive, modelHandle, isModelLoaded, loadedPath, nextHandle,
                 liveModels, destroyed, audioRuns>>
  /\ UNCHANGED <<audioVars, threadVars, fnVars>>

\* func recognize(audioData:language:)
RecRecognize ==
  /\ alive
  /\ cTranscribeCalls < MaxCalls
  /\ \E language \in Languages, build \in Builds :
     \E t \in {transcribe(isModelLoaded, modelHandle, audioRuns, language, loadedPath,
                          build)} :
     \E r \in {recognize(t)} :
       /\ recOutcome' = [r.outcome EXCEPT !.samples = AudioSize(audioRuns)]
       /\ cTranscribeCalls' = cTranscribeCalls + r.c_calls
  /\ recOp' = "recognize"
  /\ UNCHANGED <<alive, modelHandle, isModelLoaded, loadedPath, nextHandle,
                 liveModels, destroyed, audioRuns>>
  /\ UNCHANGED <<audioVars, threadVars, fnVars>>

\* transcribe(audioFilePath:language:) and recognize(audioFilePath:language:)
\* on a file holding the audio: load it, then transcribe what was loaded.
FromFile(path, alloc, language, build, only_text) ==
  LET loaded == AudioProcessor_loadAudio(path, AudioSize(audioRuns), alloc)
  IN  IF loaded.kind = "throw"
        THEN [outcome |-> RecThrow(loaded.error), c_calls |-> 0]
        ELSE CHOOSE r \in
               { IF only_text THEN recognize(t) ELSE t :
                   t \in {transcribe(isModelLoaded, modelHandle, audioRuns, language,
                                     loadedPath, build)} } : TRUE

RecTranscribeFile ==
  /\ alive
  /\ cTranscribeCalls < MaxCalls
  /\ \E path \in Paths, alloc \in BOOLEAN, language \in Languages, build \in Builds :
     \E t \in {FromFile(path, alloc, language, build, FALSE)} :
       /\ recOutcome' = [t.outcome EXCEPT !.samples = AudioSize(audioRuns)]
       /\ cTranscribeCalls' = cTranscribeCalls + t.c_calls
  /\ recOp' = "transcribeFile"
  /\ UNCHANGED <<alive, modelHandle, isModelLoaded, loadedPath, nextHandle,
                 liveModels, destroyed, audioRuns>>
  /\ UNCHANGED <<audioVars, threadVars, fnVars>>

RecRecognizeFile ==
  /\ alive
  /\ cTranscribeCalls < MaxCalls
  /\ \E path \in Paths, alloc \in BOOLEAN, language \in Languages, build \in Builds :
     \E t \in {FromFile(path, alloc, language, build, TRUE)} :
       /\ recOutcome' = [t.outcome EXCEPT !.samples = AudioSize(audioRuns)]
       /\ cTranscribeCalls' = cTranscribeCalls + t.c_calls
  /\ recOp' = "recognizeFile"
  /\ UNCHANGED <<alive, modelHandle, isModelLoaded, loadedPath, nextHandle,
                 liveModels, destroyed, audioRuns>>
  /\ UNCHANGED <<audioVars, threadVars, fnVars>>

\* deinit
RecDeinit ==
  /\ alive
  /\ alive' = FALSE
  /\ destroyed' = IF modelHandle # 0 THEN whisper_destroy_model(modelHandle, destroyed)
                                    ELSE destroyed
  /\ liveModels' = liveModels \ {modelHandle}
  /\ recOp' = "deinit"
  /\ recOutcome' = NoRecOutcome
  /\ UNCHANGED <<modelHandle, isModelLoaded, loadedPath, nextHandle,
                 cTranscribeCalls, audioRuns>>
  /\ UNCHANGED <<audioVars, threadVars, fnVars>>

NextRecognizer ==
  \/ RecLoadModel
  \/ RecTranscribe
  \/ RecRecognize
  \/ RecTranscribeFile
  \/ RecRecognizeFile
  \/ RecDeinit

SpecRecognizer == InitRecognizer /\ [][NextRecognizer]_vars

\* var hasModelLoaded: Bool
hasModelLoaded == isModelLoaded

----------------------------------------------------------------------------
(* Properties of the recognizer *)

\* The last operation transcribed a non-empty audio file that loaded, with
\* the bundled model loaded, and returned.
TranscribedLoadedFile(name) ==
  /\ recOp = name
  /\ isModelLoaded
  /\ loadedPath = "whisper_ct2"
  /\ recOutcome.kind = "return"
  /\ recOutcome.samples > 0

\* C9: with a model loaded, transcribing a loadable, non-empty audio file
\* returns a result with at least one transcription segment, and recognize
\* returns non-empty text, whether the language is given or auto-detected.
C9_SegmentsReturned ==
  /\ TranscribedLoadedFile("transcribeFile") => Len(recOutcome.segments) >= 1
  /\ TranscribedLoadedFile("recognizeFile") => recOutcome.text # ""

\* C10: a new recognizer reports hasModelLoaded = false; hasModelLoaded
\* becomes true only in a loadModel call that returns; and
\* transcribe(audio:language:) without a model loaded throws modelNotLoaded
\* and leaves the number of whisper_transcribe invocations unchanged.
C10_ModelGuard ==
  /\ ~hasModelLoaded
  /\ [][ /\ (~hasModelLoaded /\ hasModelLoaded')
              => (recOp' = "loadModel" /\ recOutcome'.kind = "return")
         /\ (~hasModelLoaded /\ recOp' = "transcribe")
              => /\ recOutcome'.kind = "throw"
                 /\ recOutcome'.error = SpeechRecognitionError("modelNotLoaded")
                 /\ cTranscribeCalls' = cTranscribeCalls ]_vars

\* transcribe(audio:language:) threw modelNotLoaded on a recognizer whose
\* model had been loaded and used and was then lost to a failed loadModel.
C10_Witness ==
  /\ recOp = "transcribe"
  /\ ~hasModelLoaded
  /\ recOutcome.kind = "throw"
  /\ recOutcome.error = SpeechRecognitionError("modelNotLoaded")
  /\ nextHandle >= 1
  /\ cTranscribeCalls >= 1
  /\ AudioSize(audioRuns) > 0

\* The transcription of the recognizer's audio by the loaded model fails: the
\* audio array is empty, or WhisperModel::transcribe raises an exception.
TranscriptionFails ==
  \/ AudioSize(audioRuns) = 0
  \/ \E build \in Builds :
       WhisperModel_transcribe(audioRuns, NoLanguage, ModelDir(loadedPath), build).kind
         = "exception"

\* C11: transcribe(audio:language:) throws whenever the transcription fails; a
\* failed transcription is never returned as a normal TranscriptionResult.
C11_FailureThrows ==
  (recOp = "transcribe" /\ isModelLoaded /\ TranscriptionFails)
    => recOutcome.kind = "throw"

\* Number of times handle h was passed to whisper_destroy_model.
TimesDestroyed(h) == Cardinality({i \in DOMAIN destroyed : destroyed[i] = h})

\* C12: every model handle returned by whisper_create_model is passed to
\* whisper_destroy_model at most once, the only handle not yet destroyed is
\* the one the recognizer holds, and once the recognizer is deallocated every
\* handle has been destroyed exactly once.
C12_HandlesDestroyedOnce ==
  /\ \A h \in 1..nextHandle : TimesDestroyed(h) <= 1
  /\ \A i \in DOMAIN destroyed : destroyed[i] \in 1..nextHandle
  /\ alive => {h \in 1..nextHandle : TimesDestroyed(h) = 0} = {modelHandle} \ {0}
  /\ ~alive => \A h \in 1..nextHandle : TimesDestroyed(h) = 1

\* The recognizer was deallocated after two models had been created, the first
\* replaced by loadModel and the second still held at deallocation.
C12_Witness ==
  /\ ~alive
  /\ nextHandle >= 2
  /\ modelHandle = nextHandle
  /\ Len(destroyed) = nextHandle

----------------------------------------------------------------------------
(* Two threads on one recognizer: one in loadModel(path:), one in
   transcribe(audio:language:).  The class has no lock, queue or actor
   isolation, so the statements of the two methods interleave; each action is
   one statement.  A method call keeps the recognizer alive, so deinit does
   not interleave with them. *)

ThreadAudios == {<<>>, <<RunOf(FALSE, TRUE, MIN_SEGMENT_SAMPLES)>>}

InitThreads ==
  /\ AudioIdle
  /\ RecognizerNew
  /\ FnIdle
  /\ audioRuns \in ThreadAudios

\* What a whisper_transcribe call on a deleted WhisperModel can end in: a
\* crash, the zeroed result, or what the call returns on whichever model the
\* freed block holds by then (the remains of the deleted model, or a model
\* created since at the same address).
UseAfterFreeOutcomes(runs, language) ==
  { [NoRecOutcome EXCEPT !.kind = "crash"] }
    \cup { [TranscriptionResult(NullResult) EXCEPT !.samples = AudioSize(runs)] }
    \cup { [TranscriptionResult(whisper_transcribe(FALSE, FALSE, runs, language, path,
                                                   build))
             EXCEPT !.samples = AudioSize(runs)] :
             path \in LoadedModelPaths, build \in Builds }

\* loadModel: if let handle = modelHandle
LoadModelBegin ==
  /\ lPc = "idle"
  /\ nextHandle < MaxModels
  /\ \E path \in ModelPaths : lPath' = path
  /\ lHandle' = modelHandle
  /\ lPc' = IF modelHandle # 0 THEN "destroy" ELSE "create"
  /\ UNCHANGED <<tPc, tHandle, lOutcome>>
  /\ UNCHANGED <<audioVars, recVars, fnVars>>

\* loadModel: whisper_destroy_model(handle)
LoadModelDestroy ==
  /\ lPc = "destroy"
  /\ destroyed' = whisper_destroy_model(lHandle, destroyed)
  /\ liveModels' = liveModels \ {lHandle}
  /\ lPc' = "clear_handle"
  /\ UNCHANGED <<tPc, tHandle, lHandle, lPath, lOutcome>>
  /\ UNCHANGED <<alive, modelHandle, isModelLoaded, loadedPath, nextHandle,
                 cTranscribeCalls, audioRuns, recOp, recOutcome>>
  /\ UNCHANGED <<audioVars, fnVars>>

\* loadModel: modelHandle = nil
LoadModelClearHandle ==
  /\ lPc = "clear_handle"
  /\ modelHandle' = 0
  /\ lPc' = "clear_flag"
  /\ UNCHANGED <<tPc, tHandle, lHandle, lPath, lOutcome>>
  /\ UNCHANGED <<alive, isModelLoaded, loadedPath, nextHandle, liveModels, destroyed,
                 cTranscribeCalls, audioRuns, recOp, recOutcome>>
  /\ UNCHANGED <<audioVars, fnVars>>

\* loadModel: isModelLoaded = false
LoadModelClearFlag ==
  /\ lPc = "clear_flag"
  /\ isModelLoaded' = FALSE
  /\ lPc' = "create"
  /\ UNCHANGED <<tPc, tHandle, lHandle, lPath, lOutcome>>
  /\ UNCHANGED <<alive, modelHandle, loadedPath, nextHandle, liveModels, destroyed,
                 cTranscribeCalls, audioRuns, recOp, recOutcome>>
  /\ UNCHANGED <<audioVars, fnVars>>

\* loadModel: the two guards around utf8String and whisper_create_model
LoadModelCreate ==
  /\ lPc = "create"
  /\ IF lPath = UnencodablePath \/ ~whisper_create_model(FALSE, lPath)
       THEN /\ lOutcome' = RecThrow(SpeechRecognitionError(
                              IF lPath = UnencodablePath THEN "invalidModelPath"
                                                         ELSE "modelLoadFailed"))
            /\ lPc' = "idle"
            /\ UNCHANGED <<lHandle, nextHandle, liveModels, loadedPath>>
       ELSE /\ nextHandle' = nextHandle + 1
            /\ lHandle' = nextHandle + 1
            /\ liveModels' = liveModels \cup {nextHandle + 1}
            /\ loadedPath' = lPath
            /\ lPc' = "set_handle"
            /\ UNCHANGED lOutcome
  /\ UNCHANGED <<tPc, tHandle, lPath>>
  /\ UNCHANGED <<alive, modelHandle, isModelLoaded, destroyed, cTranscribeCalls,
                 audioRuns, recOp, recOutcome>>
  /\ UNCHANGED <<audioVars, fnVars>>

\* loadModel: modelHandle = handle
LoadModelSetHandle ==
  /\ lPc = "set_handle"
  /\ modelHandle' = lHandle
  /\ lPc' = "set_flag"
  /\ UNCHANGED <<tPc, tHandle, lHandle, lPath, lOutcome>>
  /\ UNCHANGED <<alive, isModelLoaded, loadedPath, nextHandle, liveModels, destroyed,
                 cTranscribeCalls, audioRuns, recOp, recOutcome>>
  /\ UNCHANGED <<audioVars, fnVars>>

\* loadModel: isModelLoaded = true
LoadModelSetFlag ==
  /\ lPc = "set_flag"
  /\ isModelLoaded' = TRUE
  /\ lOutcome' = RecReturn
  /\ lPc' = "idle"
  /\ UNCHANGED <<tPc, tHandle, lHandle, lPath>>
  /\ UNCHANGED <<alive, modelHandle, loadedPath, nextHandle, liveModels, destroyed,
                 cTranscribeCalls, audioRuns, recOp, recOutcome>>
  /\ UNCHANGED <<audioVars, fnVars>>

\* transcribe: guard isModelLoaded
TranscribeGuardFlag ==
  /\ tPc = "idle"
  /\ cTranscribeCalls < MaxCalls
  /\ IF isModelLoaded
       THEN /\ tPc' = "read_handle"
            /\ UNCHANGED <<recOp, recOutcome>>
       ELSE /\ recOutcome' = RecThrow(SpeechRecognitionError("modelNotLoaded"))
            /\ recOp' = "transcribe"
            /\ UNCHANGED tPc
  /\ UNCHANGED <<tHandle, lPc, lHandle, lPath, lOutcome>>
  /\ UNCHANGED <<alive, modelHandle, isModelLoaded, loadedPath, nextHandle, liveModels,
                 destroyed, cTranscribeCalls, audioRuns>>
  /\ UNCHANGED <<audioVars, fnVars>>

\* transcribe: guard ..., let handle = modelHandle
TranscribeReadHandle ==
  /\ tPc = "read_handle"
  /\ IF modelHandle # 0
       THEN /\ tHandle' = modelHandle
            /\ tPc' = "call"
            /\ UNCHANGED <<recOp, recOutcome>>
       ELSE /\ recOutcome' = RecThrow(SpeechRecognitionError("modelNotLoaded"))
            /\ recOp' = "transcribe"
            /\ tPc' = "idle"
            /\ UNCHANGED tHandle
  /\ UNCHANGED <<lPc, lHandle, lPath, lOutcome>>
  /\ UNCHANGED <<alive, modelHandle, isModelLoaded, loadedPath, nextHandle, liveModels,
                 destroyed, cTranscribeCalls, audioRuns>>
  /\ UNCHANGED <<audioVars, fnVars>>

\* transcribe: whisper_transcribe(handle, audio, UInt(audio.count), cLanguage)
\* is entered
TranscribeCall ==
  /\ tPc = "call"
  /\ cTranscribeCalls' = cTranscribeCalls + 1
  /\ tPc' = "in_call"
  /\ UNCHANGED <<tHandle, lPc, lHandle, lPath, lOutcome>>
  /\ UNCHANGED <<alive, modelHandle, isModelLoaded, loadedPath, nextHandle, liveModels,
                 destroyed, audioRuns, recOp, recOutcome>>
  /\ UNCHANGED <<audioVars, fnVars>>

\* transcribe: whisper_transcribe returns and the result is converted
TranscribeReturn ==
  /\ tPc = "in_call"
  /\ IF tHandle \in liveModels
       THEN \E language \in Languages, build \in Builds :
            \E result \in {whisper_transcribe(FALSE, FALSE, audioRuns, language,
                                              loadedPath, build)} :
              recOutcome' = [TranscriptionResult(result)
                               EXCEPT !.samples = AudioSize(audioRuns)]
       ELSE \E language \in Languages :
            \E o \in UseAfterFreeOutcomes(audioRuns, language) : recOutcome' = o
  /\ recOp' = "transcribe"
  /\ tPc' = "idle"
  /\ UNCHANGED <<tHandle, lPc, lHandle, lPath, lOutcome>>
  /\ UNCHANGED <<alive, modelHandle, isModelLoaded, loadedPath, nextHandle, liveModels,
                 destroyed, cTranscribeCalls, audioRuns>>
  /\ UNCHANGED <<audioVars, fnVars>>

NextThreads ==
  \/ LoadModelBegin
  \/ LoadModelDestroy
  \/ LoadModelClearHandle
  \/ LoadModelClearFlag
  \/ LoadModelCreate
  \/ LoadModelSetHandle
  \/ LoadModelSetFlag
  \/ TranscribeGuardFlag
  \/ TranscribeReadHandle
  \/ TranscribeCall
  \/ TranscribeReturn

SpecThreads == InitThreads /\ [][NextThreads]_vars

\* C13: when transcribe and loadModel run concurrently on the same
\* recognizer, whisper_transcribe is only ever given, and only ever works on,
\* a model handle that has not been destroyed.
C13_TranscribeHandleLive ==
  tPc = "in_call" => tHandle \in liveModels

----------------------------------------------------------------------------
(* Audio::pad_or_trim on sample vectors *)

\* Sample values; 0 is the value used for padding.
Samples == {-1, 0, 1}

Arrays == SeqsUpTo(Samples, MaxLen)

Lengths == 0..(MaxLen + 1)

Resize_at_front(array, length) ==
  [i \in 1..length |-> IF i > length - Len(array)
                         THEN array[i - (length - Len(array))] ELSE 0]

\* padded.resize(length, 0.0f)
Resize(array, length) ==
  [i \in 1..length |-> IF i <= Len(array) THEN array[i] ELSE 0]

Audio_pad_or_trim_keeps_end(array, length) ==
  IF Len(array) = length THEN array
  ELSE IF Len(array) > length
    THEN SubSeq(array, Len(array) - length + 1, Len(array))
    ELSE Resize(array, length)

\* std::vector<float> Audio::pad_or_trim(array, length)
Audio_pad_or_trim(array, length) ==
  IF Len(array) = length THEN array
  ELSE IF Len(array) > length
    THEN SubSeq(array, 1, length)
    ELSE Resize(array, length)

\* Everything but the function call under test is idle.
OnlyFunctions ==
  /\ AudioIdle
  /\ RecognizerNew
  /\ audioRuns = <<>>

InitPadOrTrim ==
  /\ OnlyFunctions
  /\ fnCall \in [name : {"none"}, array : Arrays, length : Lengths]
  /\ fnResult = NoResult

\* Audio::pad_or_trim(array, length)
PadOrTrim ==
  /\ fnCall.name = "none"
  /\ fnCall' = [fnCall EXCEPT !.name = "pad_or_trim"]
  /\ fnResult' = [kind |-> "return",
                  value |-> Audio_pad_or_trim(fnCall.array, fnCall.length)]
  /\ UNCHANGED <<audioVars, recVars, threadVars>>

\* Audio::pad_or_trim(Audio::pad_or_trim(array, length), array.size()) for a
\* length beyond the end of the array
PadThenTrim ==
  /\ fnCall.name = "none"
  /\ fnCall.length > Len(fnCall.array)
  /\ fnCall' = [fnCall EXCEPT !.name = "pad_then_trim"]
  /\ fnResult' = [kind |-> "return",
                  value |-> Audio_pad_or_trim(
                              Audio_pad_or_trim(fnCall.array, fnCall.length),
                              Len(fnCall.array))]
  /\ UNCHANGED <<audioVars, recVars, threadVars>>

NextPadOrTrim ==
  \/ PadOrTrim
  \/ PadThenTrim

SpecPadOrTrim == InitPadOrTrim /\ [][NextPadOrTrim]_vars

\* C14: Audio::pad_or_trim(a, L) returns exactly L elements; element i is
\* a[i] wherever both have an element i (so trimming keeps the beginning),
\* and 0 from the end of a on.
C14_PadOrTrimElements ==
  fnCall.name = "pad_or_trim" =>
    /\ Len(fnResult.value) = fnCall.length
    /\ \A i \in 1..fnCall.length :
         fnResult.value[i] = IF i <= Len(fnCall.array) THEN fnCall.array[i] ELSE 0

\* A vector with a non-zero last element different from its first was trimmed.
C14_Witness ==
  /\ fnCall.name = "pad_or_trim"
  /\ Len(fnCall.array) = MaxLen
  /\ fnCall.length \in 1..(MaxLen - 1)
  /\ fnCall.array[1] = 1
  /\ fnCall.array[MaxLen] = -1
  /\ fnResult.value[1] = 1

\* C15: padding a waveform to a greater length and trimming the result back
\* to the original length returns the original waveform, element for element.
C15_RoundTrip ==
  fnCall.name = "pad_then_trim" => fnResult.value = fnCall.array

\* A waveform without any zero sample went through the round trip.
C15_Witness ==
  /\ fnCall.name = "pad_then_trim"
  /\ Len(fnCall.array) >= 2
  /\ \A i \in DOMAIN fnCall.array : fnCall.array[i] # 0
  /\ fnResult.value = fnCall.array

----------------------------------------------------------------------------
(* Log compression, dynamic-range clamp and normalization of the feature
   extractor, per chunk.  A chunk is given by the log10 values of its mel
   spectrogram, in whole units. *)

\* log10 of max(value, 1e-10)
LOG_FLOOR == -10
DYNAMIC_RANGE == 8

LogValues == {LOG_FLOOR, -5, -2, 0, 3}

\* The log spectrograms of a chunk: its entries in any fixed order.
LogSpecs == [1..2 -> LogValues]

ChunkSeqs == UNION {[1..n -> LogSpecs] : n \in 1..MaxChunks}

Max(a, b) == IF a >= b THEN a ELSE b

SeqMax(q) == CHOOSE v \in {q[i] : i \in DOMAIN q} : \A i \in DOMAIN q : q[i] <= v

\* Four times (log_spec + 4.0) / 4.0
NormalizedTimes4(x) == x + 4

\* log_spec = max(log_spec, log_spec.max() - 8.0); (log_spec + 4.0) / 4.0,
\* with the maximum `top` the clamp is taken from
ClampAndNormalize(log_spec, top) ==
  [k \in DOMAIN log_spec |-> NormalizedTimes4(Max(log_spec[k], top - DYNAMIC_RANGE))]

ExtractChunks_shared_clamp(chunks) ==
  LET top == SeqMax([i \in DOMAIN chunks |-> SeqMax(chunks[i])])
  IN  [i \in DOMAIN chunks |-> ClampAndNormalize(chunks[i], top)]

\* Each chunk is extracted independently, with its own clamp.
ExtractChunks(chunks) ==
  [i \in DOMAIN chunks |-> ClampAndNormalize(chunks[i], SeqMax(chunks[i]))]

InitLogMel ==
  /\ OnlyFunctions
  /\ fnCall \in [name : {"none"}, chunks : ChunkSeqs]
  /\ fnResult = NoResult

ExtractLogMel ==
  /\ fnCall.name = "none"
  /\ fnCall' = [fnCall EXCEPT !.name = "extract_chunks"]
  /\ fnResult' = [kind |-> "return", value |-> ExtractChunks(fnCall.chunks)]
  /\ UNCHANGED <<audioVars, recVars, threadVars>>

NextLogMel == ExtractLogMel

SpecLogMel == InitLogMel /\ [][NextLogMel]_vars

\* C16: in the feature matrix of every chunk no value is more than 8.0 log
\* units below the chunk's own maximum (2.0 after normalization, 8 in
\* quarters), the clamp floor is the chunk's own maximum minus 8.0, and the
\* chunk's features are those it gets when extracted alone.
C16_ClampPerChunk ==
  fnCall.name = "extract_chunks" =>
    \A i \in DOMAIN fnCall.chunks :
      LET out == fnResult.value[i]
          own == SeqMax(fnCall.chunks[i])
      IN  /\ \A k \in DOMAIN out :
               /\ SeqMax(out) - out[k] <= DYNAMIC_RANGE
               /\ out[k] = NormalizedTimes4(Max(fnCall.chunks[i][k], own - DYNAMIC_RANGE))
          /\ out = ExtractChunks(<<fnCall.chunks[i]>>)[1]

\* Two chunks were extracted, the quiet one holding values that the loud
\* one's maximum would have clamped away, and one chunk was clamped.
C16_Witness ==
  /\ fnCall.name = "extract_chunks"
  /\ Len(fnCall.chunks) >= 2
  /\ SeqMax(fnCall.chunks[1]) = 3
  /\ fnCall.chunks[1][2] = LOG_FLOOR
  /\ fnResult.value[1][2] = NormalizedTimes4(3 - DYNAMIC_RANGE)
  /\ SeqMax(fnCall.chunks[2]) = -5
  /\ fnResult.value[2][2] = NormalizedTimes4(LOG_FLOOR)

----------------------------------------------------------------------------
(* The transform behind the STFT: dispatch on the input length *)

\* The smallest power of two at or above target, searched from the power p.
RECURSIVE PowerOfTwoFrom(_, _)
PowerOfTwoFrom(p, target) ==
  IF p >= target THEN p ELSE PowerOfTwoFrom(2 * p, target)

NextPowerOfTwo(target) == PowerOfTwoFrom(1, target)

IsPowerOfTwo(n) == n >= 1 /\ NextPowerOfTwo(n) = n

\* Number of butterfly stages of a radix-2 transform of size n.
RECURSIVE Log2(_)
Log2(n) == IF n <= 1 THEN 0 ELSE 1 + Log2(n \div 2)

TransformPrecondition == [kind |-> "error", error |-> "TransformPrecondition"]

BluesteinSize_input_length(n) == NextPowerOfTwo(n)

\* Size of the internal power-of-two transform of Bluestein's algorithm.
BluesteinSize(n) == NextPowerOfTwo(2 * n - 1)

fft_empty_for_zero(n) ==
  IF n = 0
    THEN [kind |-> "return", path |-> "none", size |-> 0, stages |-> 0, bins |-> 0]
  ELSE IF IsPowerOfTwo(n)
    THEN [kind |-> "return", path |-> "radix2", size |-> n, stages |-> Log2(n),
          bins |-> n]
    ELSE [kind |-> "return", path |-> "bluestein", size |-> BluesteinSize(n),
          stages |-> Log2(BluesteinSize(n)), bins |-> n]

\* The transform of n samples: which algorithm runs, on which internal size.
fft(n) ==
  IF n = 0
    THEN TransformPrecondition
  ELSE IF IsPowerOfTwo(n)
    THEN [kind |-> "return", path |-> "radix2", size |-> n, stages |-> Log2(n),
          bins |-> n]
    ELSE [kind |-> "return", path |-> "bluestein", size |-> BluesteinSize(n),
          stages |-> Log2(BluesteinSize(n)), bins |-> n]

InitFFT ==
  /\ OnlyFunctions
  /\ fnCall \in [name : {"none"}, n : 0..MaxN]
  /\ fnResult = NoResult

Transform ==
  /\ fnCall.name = "none"
  /\ fnCall' = [fnCall EXCEPT !.name = "fft"]
  /\ fnResult' = fft(fnCall.n)
  /\ UNCHANGED <<audioVars, recVars, threadVars>>

NextFFT == Transform

SpecFFT == InitFFT /\ [][NextFFT]_vars

\* Exponents of the powers of two up to 4096.
Exponents == 0..12

\* C17: a length that is a power of two (down to 1, where no butterfly stage
\* runs: the identity) takes the radix-2 path on that length; any other
\* length takes Bluestein's algorithm with an internal transform whose size
\* is the least power of two M >= 2N - 1 (1024 for N = 400).
C17_Dispatch ==
  (fnCall.name = "fft" /\ fnCall.n >= 1) =>
    IF \E k \in Exponents : fnCall.n = 2^k
      THEN /\ fnResult.path = "radix2"
           /\ fnResult.size = fnCall.n
           /\ fnCall.n = 1 => fnResult.stages = 0
      ELSE /\ fnResult.path = "bluestein"
           /\ \E k \in Exponents : fnResult.size = 2^k
           /\ fnResult.size >= 2 * fnCall.n - 1
           /\ fnResult.size \div 2 < 2 * fnCall.n - 1
           /\ fnCall.n = N_FFT => fnResult.size = 1024

\* The transform of the extractor's 400-sample frame ran.
C17_Witness ==
  /\ fnCall.name = "fft"
  /\ fnCall.n = N_FFT
  /\ fnResult.path = "bluestein"
  /\ fnResult.size = 1024

\* C18: a transform request of size 0 is rejected with a
\* precondition-violation error; no spectrum is returned.
C18_ZeroRejected ==
  (fnCall.name = "fft" /\ fnCall.n = 0) =>
    /\ fnResult.kind = "error"
    /\ fnResult.error = "TransformPrecondition"

\* A transform of size 0 was requested and rejected.
C18_Witness ==
  /\ fnCall.name = "fft"
  /\ fnCall.n = 0
  /\ fnResult = TransformPrecondition

----------------------------------------------------------------------------
(* Construction of the feature extractor *)

InvalidConfiguration == [kind |-> "error", error |-> "InvalidConfiguration"]

\* Candidate values of a configuration parameter around its default.
ConfigValues(default) == {-1, 0, 1, default}

FeatureExtractor_new_clamping(feature_size, sampling_rate, hop_length, chunk_len, n_fft) ==
  [kind |-> "return",
   value |-> FeatureExtractor(Max(feature_size, 1), Max(sampling_rate, 1),
                              Max(hop_length, 1), chunk_len, Max(n_fft, 1))]

\* FeatureExtractor(feature_size, sampling_rate, hop_length, chunk_length,
\* n_fft): the constructor with its validation.
FeatureExtractor_new(feature_size, sampling_rate, hop_length, chunk_len, n_fft) ==
  IF feature_size <= 0 \/ sampling_rate <= 0 \/ hop_length <= 0 \/ n_fft <= 0
    THEN InvalidConfiguration
    ELSE [kind |-> "return",
          value |-> FeatureExtractor(feature_size, sampling_rate, hop_length,
                                     chunk_len, n_fft)]

InitConfig ==
  /\ OnlyFunctions
  /\ fnCall \in [name : {"none"},
                 feature_size : ConfigValues(N_MELS),
                 sampling_rate : ConfigValues(SAMPLE_RATE),
                 hop_length : ConfigValues(HOP_LENGTH),
                 n_fft : ConfigValues(N_FFT)]
  /\ fnResult = NoResult

Construct ==
  /\ fnCall.name = "none"
  /\ fnCall' = [fnCall EXCEPT !.name = "FeatureExtractor"]
  /\ fnResult' = FeatureExtractor_new(fnCall.feature_size, fnCall.sampling_rate,
                                      fnCall.hop_length, CHUNK_LENGTH, fnCall.n_fft)
  /\ UNCHANGED <<audioVars, recVars, threadVars>>

NextConfig == Construct

SpecConfig == InitConfig /\ [][NextConfig]_vars

Constructed == fnCall.name = "FeatureExtractor"

\* C19: constructing an extractor with a non-positive n_mels, n_fft,
\* hop_length or sample rate fails with an invalid-configuration error and
\* produces no extractor; an extractor that is produced holds exactly the
\* values it was given.
C19_ConfigValidated ==
  Constructed =>
    IF \E f \in {"feature_size", "sampling_rate", "hop_length", "n_fft"} : fnCall[f] <= 0
      THEN fnResult = InvalidConfiguration
      ELSE /\ fnResult.kind = "return"
           /\ fnResult.value.n_mels = fnCall.feature_size
           /\ fnResult.value.sampling_rate = fnCall.sampling_rate
           /\ fnResult.value.hop_length = fnCall.hop_length
           /\ fnResult.value.n_fft = fnCall.n_fft

\* A construction with hop_length 0 and everything else at its default failed.
C19_Witness ==
  /\ Constructed
  /\ fnCall.hop_length = 0
  /\ fnCall.feature_size = N_MELS
  /\ fnCall.sampling_rate = SAMPLE_RATE
  /\ fnCall.n_fft = N_FFT
  /\ fnResult = InvalidConfiguration

----------------------------------------------------------------------------
(* Mel filterbank.  Frequencies are in whole Hz, mels in thousandths, weights
   in ten-thousandths of a filter's peak; the area normalization multiplies a
   row by the positive factor 2 / (hi - lo) and is left out. *)

WEIGHT_SCALE == 10000

\* Slaney scale above 1 kHz: the frequency at the whole mels 15, 16, ..., 61
\* (1000 * 6.4^((mel - 15) / 27), rounded).
SlaneyHz ==
  << 1000, 1071, 1147, 1229, 1317, 1410, 1511, 1618, 1733, 1857, 1989, 2130,
     2282, 2444, 2618, 2805, 3004, 3218, 3447, 3692, 3955, 4237, 4538, 4861,
     5207, 5578, 5975, 6400, 6855, 7343, 7866, 8426, 9026, 9668, 10356, 11093,
     11882, 12728, 13634, 14604, 15644, 16757, 17950, 19227, 20596, 22061,
     23632 >>

\* Piecewise linear below 1 kHz (200/3 Hz per mel), logarithmic above.
mel_to_hz(millimel) ==
  IF millimel < 15000
    THEN (millimel * 200) \div 3000
    ELSE LET j == millimel \div 1000 - 14
             frac == millimel % 1000
         IN  SlaneyHz[j] + ((SlaneyHz[j + 1] - SlaneyHz[j]) * frac) \div 1000

hz_to_mel(hz) ==
  IF hz < 1000
    THEN hz * 15
    ELSE LET j == CHOOSE i \in 1..(Len(SlaneyHz) - 1) :
                    SlaneyHz[i] <= hz /\ hz < SlaneyHz[i + 1]
         IN  (j + 14) * 1000
               + ((hz - SlaneyHz[j]) * 1000) \div (SlaneyHz[j + 1] - SlaneyHz[j])

\* Edge i (0 .. n_mels + 1) of the filters: evenly spaced in mel over
\* [0, sample_rate / 2].
MelEdge(sample_rate, n_mels, i) ==
  mel_to_hz((i * hz_to_mel(sample_rate \div 2)) \div (n_mels + 1))

\* Frequency of bin k (from 0) of an n_fft-point transform.
BinHz(sample_rate, n_fft, k) == (k * sample_rate) \div n_fft

\* Triangular filter with base [lo, hi] and peak at center, at frequency f.
TriangleWeight(lo, center, hi, f) ==
  Max(0, Min(((f - lo) * WEIGHT_SCALE) \div (center - lo),
             ((hi - f) * WEIGHT_SCALE) \div (hi - center)))

get_mel_filters_nyquist_dropped(sample_rate, n_fft, n_mels) ==
  [i \in 1..n_mels |->
     [k \in 1..(n_fft \div 2) |->
        TriangleWeight(MelEdge(sample_rate, n_mels, i - 1),
                       MelEdge(sample_rate, n_mels, i),
                       MelEdge(sample_rate, n_mels, i + 1),
                       BinHz(sample_rate, n_fft, k - 1))]]

\* FeatureExtractor::get_mel_filters(sample_rate, n_fft, n_mels)
get_mel_filters(sample_rate, n_fft, n_mels) ==
  [i \in 1..n_mels |->
     [k \in 1..(n_fft \div 2 + 1) |->
        TriangleWeight(MelEdge(sample_rate, n_mels, i - 1),
                       MelEdge(sample_rate, n_mels, i),
                       MelEdge(sample_rate, n_mels, i + 1),
                       BinHz(sample_rate, n_fft, k - 1))]]

\* The parameter triples: those of the tests and their neighbours.
MelTriples ==
  [name : {"none"},
   sample_rate : {8000, 16000, 22050, 44100},
   n_fft : {200, 400, 512, 1024},
   n_mels : {40, 64, 80, 128}]

InitMelFilters ==
  /\ OnlyFunctions
  /\ fnCall \in MelTriples
  /\ fnResult = NoResult

GetMelFilters ==
  /\ fnCall.name = "none"
  /\ fnCall' = [fnCall EXCEPT !.name = "get_mel_filters"]
  /\ fnResult' = [kind |-> "return",
                  value |-> get_mel_filters(fnCall.sample_rate, fnCall.n_fft,
                                            fnCall.n_mels)]
  /\ UNCHANGED <<audioVars, recVars, threadVars>>

NextMelFilters == GetMelFilters

SpecMelFilters == InitMelFilters /\ [][NextMelFilters]_vars

MelFiltersOf(sample_rate, n_fft, n_mels) ==
  /\ fnCall.name = "get_mel_filters"
  /\ fnCall.sample_rate = sample_rate
  /\ fnCall.n_fft = n_fft
  /\ fnCall.n_mels = n_mels

HasShape(matrix, rows, cols) ==
  /\ Len(matrix) = rows
  /\ \A i \in DOMAIN matrix : Len(matrix[i]) = cols

\* C20: get_mel_filters returns n_mels rows of n_fft/2 + 1 columns for every
\* parameter triple (80 x 201 for (16000, 400, 80), 64 x 257 for
\* (22050, 512, 64)); for (16000, 400, 80) every weight is non-negative and
\* every row has a strictly positive weight.
C20_MelFilters ==
  fnCall.name = "get_mel_filters" =>
    /\ HasShape(fnResult.value, fnCall.n_mels, fnCall.n_fft \div 2 + 1)
    /\ MelFiltersOf(16000, 400, 80) =>
         /\ HasShape(fnResult.value, 80, 201)
         /\ \A i \in DOMAIN fnResult.value :
              /\ \A k \in DOMAIN fnResult.value[i] : fnResult.value[i][k] >= 0
              /\ \E k \in DOMAIN fnResult.value[i] : fnResult.value[i][k] > 0
    /\ MelFiltersOf(22050, 512, 64) => HasShape(fnResult.value, 64, 257)

\* The filterbank of the default extractor was built; its first filter weighs
\* bin 1 (40 Hz) and not bin 0, its last one a bin below the Nyquist bin.
C20_Witness ==
  /\ MelFiltersOf(SAMPLE_RATE, N_FFT, N_MELS)
  /\ fnResult.value[1][1] = 0
  /\ fnResult.value[1][2] > 0
  /\ fnResult.value[N_MELS][N_FFT \div 2] > 0

----------------------------------------------------------------------------
(* Audio::decode_audio.  A waveform is given by its sampling rate and its
   number of samples. *)

SamplingRates == {8000, SAMPLE_RATE, 22050, 44100}

FileSampleCounts == {0, 1, 8000, SAMPLE_RATE, 2 * SAMPLE_RATE}

\* whisper::AudioProcessor::resample_audio(audio, target_rate): no-op when the
\* audio is already at the target rate.
resample_audio(wave, target_rate) ==
  IF wave.rate = target_rate
    THEN wave
    ELSE [rate |-> target_rate, samples |-> (wave.samples * target_rate) \div wave.rate]

\* std::vector<float> Audio::decode_audio(input_file, sampling_rate), for a
\* file whose audio load_audio delivers at loaded_rate: the audio returned,
\* whether resample_audio was called, and with which target.
decode_audio(input_file, fileSamples, loaded_rate, sampling_rate) ==
  LET loaded == [rate |-> loaded_rate, samples |-> load_audio(input_file, fileSamples)]
  IN  IF loaded.samples = 0
        THEN [kind |-> "return", audio |-> [rate |-> loaded_rate, samples |-> 0],
              resampled |-> FALSE, target |-> 0]
      ELSE IF sampling_rate # SAMPLE_RATE
        THEN [kind |-> "return", audio |-> resample_audio(loaded, SAMPLE_RATE),
              resampled |-> TRUE, target |-> SAMPLE_RATE]
        ELSE [kind |-> "return", audio |-> loaded, resampled |-> FALSE, target |-> 0]

InitDecode ==
  /\ OnlyFunctions
  /\ fnCall \in [name : {"none"},
                 input_file : LoadablePaths \cup FailingPaths,
                 file_samples : FileSampleCounts,
                 loaded_rate : SamplingRates,
                 sampling_rate : SamplingRates]
  /\ fnResult = NoResult

DecodeAudio ==
  /\ fnCall.name = "none"
  /\ fnCall' = [fnCall EXCEPT !.name = "decode_audio"]
  /\ fnResult' = decode_audio(fnCall.input_file, fnCall.file_samples,
                              fnCall.loaded_rate, fnCall.sampling_rate)
  /\ UNCHANGED <<audioVars, recVars, threadVars>>

NextDecode == DecodeAudio

SpecDecode == InitDecode /\ [][NextDecode]_vars

\* C21: Audio::decode_audio returns the decoded audio at the requested
\* sampling rate: it resamples exactly when the audio's own rate differs from
\* the requested one, with the requested rate as the target, and returns the
\* samples unchanged when the audio is already at that rate.
C21_DecodedAtRequestedRate ==
  (fnCall.name = "decode_audio" /\ fnResult.audio.samples > 0) =>
    /\ fnResult.audio.rate = fnCall.sampling_rate
    /\ fnResult.resampled <=> (fnCall.loaded_rate # fnCall.sampling_rate)
    /\ fnResult.resampled => fnResult.target = fnCall.sampling_rate
    /\ (fnCall.loaded_rate = fnCall.sampling_rate)
         => fnResult.audio.samples = fnCall.file_samples

----------------------------------------------------------------------------
(* transcribe(audio:language:) on a recognizer with a model loaded, as a
   function of the audio, the language argument and the model directory *)

\* Directories from which loadModel succeeds.
InitTranscribe ==
  /\ OnlyFunctions
  /\ fnCall \in [name : {"none"}, audio : SegmentAudios, language : Languages,
                 path : LoadedModelPaths]
  /\ fnResult = NoResult

\* transcribe(audio:language:) with isModelLoaded and a handle: its outcome,
\* and the silence_segments WhisperModel::transcribe computed on the way.
TranscribeLoaded ==
  /\ fnCall.name = "none"
  /\ fnCall' = [fnCall EXCEPT !.name = "transcribe"]
  /\ \E build \in Builds :
     \E t \in {transcribe(TRUE, 1, fnCall.audio, fnCall.language, fnCall.path, build)} :
     \E c \in {whisper_transcribe(FALSE, FALSE, fnCall.audio, fnCall.language,
                                  fnCall.path, build)} :
       fnResult' = [kind |-> "return",
                    outcome |-> t.outcome,
                    succeeded |-> (c # NullResult),
                    silence_segments |-> SilenceSegments(fnCall.audio)]
  /\ UNCHANGED <<audioVars, recVars, threadVars>>

NextTranscribe == TranscribeLoaded

SpecTranscribe == InitTranscribe /\ [][NextTranscribe]_vars

\* The call ran and the C++ transcription did not fail.
TranscriptionSucceeded ==
  /\ fnCall.name = "transcribe"
  /\ fnResult.succeeded

\* C22: a successful transcription reports a non-empty language and a
\* probability above 0: positive when the language is auto-detected, exactly
\* 1 (100 hundredths) when the caller supplied the language.
C22_LanguageReported ==
  TranscriptionSucceeded =>
    /\ fnResult.outcome.kind = "return"
    /\ fnResult.outcome.language # ""
    /\ fnResult.outcome.languageProbability > 0
    /\ fnCall.language # NoLanguage => fnResult.outcome.languageProbability = 100

\* Whether sample i (from 0) of the audio is non-silent (|audio[i]| >= 0.01).
SampleLoud(runs, i) ==
  LET j == CHOOSE k \in DOMAIN runs :
             RunStart(runs, k) <= i /\ i < RunStart(runs, k) + runs[k].len
  IN  runs[j].loud

\* C23: the silence-delimited segments satisfy 0 <= start < end <= size and
\* end - start >= 16000, are in strictly increasing order and disjoint with
\* at least 8000 samples between one's end and the next one's start, and
\* begin and end on non-silent samples.
C23_SegmentsWellFormed ==
  fnCall.name = "transcribe" =>
    LET segs == fnResult.silence_segments
        size == AudioSize(fnCall.audio)
    IN  /\ \A n \in DOMAIN segs :
             /\ 0 <= segs[n].start
             /\ segs[n].start < segs[n].end
             /\ segs[n].end <= size
             /\ segs[n].end - segs[n].start >= MIN_SEGMENT_SAMPLES
             /\ SampleLoud(fnCall.audio, segs[n].start)
             /\ SampleLoud(fnCall.audio, segs[n].end - 1)
        /\ \A n \in 1..(Len(segs) - 1) :
             segs[n + 1].start - segs[n].end >= MIN_SILENCE_SAMPLES

\* The last run of speech: from the first non-silent sample after the last
\* silence of at least 8000 samples to the sample after the last non-silent one.
LastSpeechRun(runs) ==
  LET loud == {j \in DOMAIN runs : runs[j].loud}
      last == CHOOSE j \in loud : \A k \in loud : k <= j
      joined == {k \in loud : \A m \in k..last :
                    runs[m].silent => runs[m].len < MIN_SILENCE_SAMPLES}
      first == CHOOSE k \in joined : \A m \in joined : k <= m
  IN  [start |-> RunStart(runs, first),
       end |-> RunStart(runs, last) + runs[last].len]

HasSpeech(runs) == \E j \in DOMAIN runs : runs[j].loud

\* C24: the last run of speech is a segment whenever it is at least 16000
\* samples long from its start to its last non-silent sample, also when
\* silence follows it up to the end of the audio.
C24_FinalSpeechKept ==
  (fnCall.name = "transcribe" /\ HasSpeech(fnCall.audio)) =>
    LET run == LastSpeechRun(fnCall.audio)
        segs == fnResult.silence_segments
    IN  run.end - run.start >= MIN_SEGMENT_SAMPLES =>
          \E n \in DOMAIN segs : segs[n].start = run.start /\ segs[n].end = run.end

\* C25: the reported duration is the number of samples of the input audio
\* over 16000, whatever the number of segments (durations are kept in samples).
C25_DurationOfInput ==
  TranscriptionSucceeded =>
    fnResult.outcome.duration = AudioSize(fnCall.audio)

-----------------------------------------------------------------------------
(* pad_or_trim of a feature matrix (transcribe.cpp) *)

MaxRows == 2

TARGET_LENGTH == 3000

\* Row lengths at, just below and just above the target, and the short ones.
RowLengths == {0, 1, TARGET_LENGTH - 1, TARGET_LENGTH, TARGET_LENGTH + 1}

\* Rows without any 0.0 value, so that padding is told from content.
FeatureRow(len, k) == [i \in 1..len |-> IF (i + k) % 2 = 0 THEN 1 ELSE -1]

FeatureRows == {FeatureRow(len, k) : len \in RowLengths, k \in {0, 1}}

FeatureMatrices == SeqsUpTo(FeatureRows, MaxRows)

pad_or_trim_pads_only(segment) ==
  IF segment = <<>> THEN segment
  ELSE [r \in DOMAIN segment |->
          IF Len(segment[r]) < TARGET_LENGTH
            THEN Resize(segment[r], TARGET_LENGTH)
            ELSE segment[r]]

\* std::vector<std::vector<float>> pad_or_trim(segment)
pad_or_trim(segment) ==
  IF segment = <<>> THEN segment
  ELSE [r \in DOMAIN segment |->
          IF Len(segment[r]) < TARGET_LENGTH
            THEN Resize(segment[r], TARGET_LENGTH)
          ELSE IF Len(segment[r]) > TARGET_LENGTH
            THEN Resize(segment[r], TARGET_LENGTH)
          ELSE segment[r]]

InitFeaturePad ==
  /\ OnlyFunctions
  /\ fnCall \in [name : {"none"}, segment : FeatureMatrices]
  /\ fnResult = NoResult

\* pad_or_trim(segment)
FeaturePadOrTrim ==
  /\ fnCall.name = "none"
  /\ fnCall' = [fnCall EXCEPT !.name = "feature_pad_or_trim"]
  /\ fnResult' = [kind |-> "return", value |-> pad_or_trim(fnCall.segment)]
  /\ UNCHANGED <<audioVars, recVars, threadVars>>

NextFeaturePad == FeaturePadOrTrim

SpecFeaturePad == InitFeaturePad /\ [][NextFeaturePad]_vars

\* C26: pad_or_trim of a non-empty feature matrix returns as many rows, each
\* of exactly 3000 columns, whose first min(len(row), 3000) values are the
\* row's and whose added columns are 0.0; an empty matrix is returned unchanged.
C26_FeaturePadOrTrim ==
  fnCall.name = "feature_pad_or_trim" =>
    LET segment == fnCall.segment
        result == fnResult.value
    IN  IF segment = <<>>
          THEN result = <<>>
          ELSE /\ Len(result) = Len(segment)
               /\ \A r \in DOMAIN segment :
                    /\ Len(result[r]) = TARGET_LENGTH
                    /\ \A i \in 1..TARGET_LENGTH :
                         result[r][i] = IF i <= Len(segment[r])
                                          THEN segment[r][i] ELSE 0

\* A matrix with a short row that was padded and a long row that was trimmed.
C26_Witness ==
  /\ fnCall.name = "feature_pad_or_trim"
  /\ Len(fnCall.segment) = 2
  /\ Len(fnCall.segment[1]) = 1
  /\ Len(fnCall.segment[2]) = TARGET_LENGTH + 1
  /\ Len(fnResult.value[1]) = TARGET_LENGTH
  /\ Len(fnResult.value[2]) = TARGET_LENGTH

====
